---------------------------- MODULE Spec2Model ----------------------------
(***************************************************************************)
(* Model of the AuditPilot scoring engine, class AISecurityAssessment of   *)
(* backend/auditpilot/core/assessment.py.                                  *)
(*                                                                         *)
(* The engine is a set of pure methods over three tables fixed by the      *)
(* constructor.  The state of the model is the last call made on the       *)
(* engine (call), what it returned (ret, a record with one field for each  *)
(* type of result) and the exception it raised, if any (raised).  One action per public method; the caller takes the       *)
(* result before it makes the next call (Discard): the engine keeps        *)
(* nothing from one call to the next.                                      *)
(*                                                                         *)
(* Numbers.  Python computes the scores in binary floating point.  The     *)
(* model computes them exactly, in fixed point: a score x is the integer   *)
(* x * Scale, and Scale is a multiple of every denominator that occurs     *)
(* (hundredths from the multipliers, hundredths from the weights, the      *)
(* length of a control list), so that no operation of the model rounds     *)
(* (ExactDiv has no value where a division would leave a remainder).  The  *)
(* tables' decimal literals are written in hundredths (0.08 is 8, 1.25 is  *)
(* 125).  What binary floating point does to the last digit of a result is *)
(* not represented: comparisons against the thresholds (40, 41, 60, 100)   *)
(* are made on the exact values.                                           *)
(*                                                                         *)
(* Dictionaries.  A Python dict keeps insertion order, and the code        *)
(* iterates over it: a dict is a sequence of <<key, value>> pairs with     *)
(* distinct keys.                                                          *)
(***************************************************************************)
EXTENDS Integers, Sequences, FiniteSets, TLC

VARIABLES call, ret, raised

vars == <<call, ret, raised>>

-----------------------------------------------------------------------------
(* Exact fixed-point arithmetic *)

\* longest list of controls a caller submits for one family
MaxLen == 2

RECURSIVE GCD(_, _)
GCD(a, b) == IF b = 0 THEN a ELSE GCD(b, a % b)

\* least common multiple of 1..n
RECURSIVE LcmUpTo(_)
LcmUpTo(n) == IF n <= 1 THEN 1 ELSE (LcmUpTo(n - 1) \div GCD(LcmUpTo(n - 1), n)) * n

\* the number x is represented by the integer x * Scale
Scale == 10000 * LcmUpTo(MaxLen)

Num(n) == n * Scale

\* a / n, defined only when the division is exact
ExactDiv(a, n) == CHOOSE q \in {a \div n} : q * n = a

\* the decimal n / d
Dec(n, d) == ExactDiv(n * Scale, d)

\* x * h, for a decimal h given in hundredths
Times(x, hundredths) == ExactDiv(x * hundredths, 100)

\* Python's min(a, b): b only when it is strictly smaller
Min(a, b) == IF b < a THEN b ELSE a

RECURSIVE Pow10(_)
Pow10(k) == IF k = 0 THEN 1 ELSE 10 * Pow10(k - 1)

\* nearest integer to n/d (d > 0), a tie going to the even one
RoundHalfEven(n, d) ==
    LET q == n \div d
        r == n - q * d
    IN  IF 2 * r < d THEN q
        ELSE IF 2 * r > d THEN q + 1
        ELSE IF q % 2 = 0 THEN q ELSE q + 1

\* round(x, ndigits) and the format {x:.1f}
Round(x, ndigits) ==
    LET step == ExactDiv(Scale, Pow10(ndigits))
    IN  RoundHalfEven(x, step) * step

-----------------------------------------------------------------------------
(* The three tables of __init__; weights and multipliers in hundredths *)

\* the keys of self.control_families, in the order of the dict literal
FamilyOrder ==
    <<"AC", "AU", "AT", "CA", "CM", "CP", "IA", "IR", "MA", "MP", "PE", "PL",
      "PS", "RA", "SA", "SC", "SI">>

control_families ==
    [f \in {FamilyOrder[i] : i \in 1..Len(FamilyOrder)} |->
        CASE f = "AC" -> [weight |-> 8, name |-> "Access Control"]
          [] f = "AU" -> [weight |-> 7, name |-> "Audit and Accountability"]
          [] f = "AT" -> [weight |-> 3, name |-> "Awareness and Training"]
          [] f = "CA" -> [weight |-> 6,
                          name |-> "Assessment, Authorization, and Monitoring"]
          [] f = "CM" -> [weight |-> 5, name |-> "Configuration Management"]
          [] f = "CP" -> [weight |-> 4, name |-> "Contingency Planning"]
          [] f = "IA" -> [weight |-> 8,
                          name |-> "Identification and Authentication"]
          [] f = "IR" -> [weight |-> 6, name |-> "Incident Response"]
          [] f = "MA" -> [weight |-> 3, name |-> "Maintenance"]
          [] f = "MP" -> [weight |-> 4, name |-> "Media Protection"]
          [] f = "PE" -> [weight |-> 3,
                          name |-> "Physical and Environmental Protection"]
          [] f = "PL" -> [weight |-> 4, name |-> "Planning"]
          [] f = "PS" -> [weight |-> 4, name |-> "Personnel Security"]
          [] f = "RA" -> [weight |-> 6, name |-> "Risk Assessment"]
          [] f = "SA" -> [weight |-> 4,
                          name |-> "System and Services Acquisition"]
          [] f = "SC" -> [weight |-> 9,
                          name |-> "System and Communications Protection"]
          [] f = "SI" -> [weight |-> 7,
                          name |-> "System and Information Integrity"]]

enhancement_multipliers ==
    [t \in {"none", "moderate", "significant", "transformational"} |->
        CASE t = "none" -> 100
          [] t = "moderate" -> 110
          [] t = "significant" -> 125
          [] t = "transformational" -> 150]

\* self.maturity_levels, in the order of the dict literal
maturity_levels ==
    << <<"basic", <<0, 40>> >>,
       <<"developing", <<41, 60>> >>,
       <<"mature", <<61, 80>> >>,
       <<"advanced", <<81, 100>> >> >>

-----------------------------------------------------------------------------
(* The methods *)

\* dict.get(key, default)
Get(d, key, default) == IF key \in DOMAIN d THEN d[key] ELSE default

\* calculate_control_score, were the cap at 100 left out
calculate_control_score_uncapped(base_score, enhancement_level) ==
    Times(Num(base_score), Get(enhancement_multipliers, enhancement_level, 100))

\* calculate_control_score, were the default of the lookup 0 instead of 1.0
calculate_control_score_default_zero(base_score, enhancement_level) ==
    Min(Times(Num(base_score), Get(enhancement_multipliers, enhancement_level, 0)),
        Num(100))

calculate_control_score(base_score, enhancement_level) ==
    LET multiplier == Get(enhancement_multipliers, enhancement_level, 100)
    IN  Min(Times(Num(base_score), multiplier), Num(100))

\* total_score, were the loop to assign (=) where it accumulates (+=)
total_score_overwritten(control_scores, n) ==
    IF n = 0 THEN 0
    ELSE calculate_control_score(control_scores[n][1], control_scores[n][2])

\* the loop of calculate_family_score: total_score after the first n entries
RECURSIVE total_score(_, _)
total_score(control_scores, n) ==
    IF n = 0 THEN 0
    ELSE total_score(control_scores, n - 1)
         + calculate_control_score(control_scores[n][1], control_scores[n][2])

calculate_family_score(control_scores) ==
    IF control_scores = <<>> THEN 0
    ELSE ExactDiv(total_score(control_scores, Len(control_scores)),
                  Len(control_scores))

\* weighted_score, were an unregistered family given a weight of 1.0
weighted_score_unfiltered(family_id, score) ==
    IF family_id \in DOMAIN control_families
    THEN Times(score, control_families[family_id].weight)
    ELSE score

\* the body of the loop of calculate_overall_score: what one item adds
weighted_score(family_id, score) ==
    IF family_id \in DOMAIN control_families
    THEN Times(score, control_families[family_id].weight)
    ELSE 0

\* the loop of calculate_overall_score: total_weighted_score after n items
RECURSIVE total_weighted_score(_, _)
total_weighted_score(family_scores, n) ==
    IF n = 0 THEN 0
    ELSE total_weighted_score(family_scores, n - 1)
         + weighted_score(family_scores[n][1], family_scores[n][2])

calculate_overall_score(family_scores) ==
    total_weighted_score(family_scores, Len(family_scores))

\* the loop of determine_maturity_level from the i-th entry of the table on
RECURSIVE maturity_from(_, _)
maturity_from(overall_score, i) ==
    IF i > Len(maturity_levels) THEN "unknown"
    ELSE LET min_score == maturity_levels[i][2][1]
             max_score == maturity_levels[i][2][2]
         IN  IF Num(min_score) <= overall_score /\ overall_score <= Num(max_score)
             THEN maturity_levels[i][1]
             ELSE maturity_from(overall_score, i + 1)

determine_maturity_level(overall_score) == maturity_from(overall_score, 1)

\* an entry of the recommendations list: a literal string
Str(s) == [text |-> s, family_name |-> "", family_id |-> "", score |-> 0]

\* f"- {family_name} ({family_id}): {score:.1f}% - Requires immediate attention"
Line(family_name, family_id, score) ==
    [text |-> "- {family_name} ({family_id}): {score:.1f}% - Requires immediate attention",
     family_name |-> family_name, family_id |-> family_id, score |-> Round(score, 1)]

Header == Str("Priority focus areas identified:")

BlockBelow40 ==
    <<Str("Critical: Implement foundational security controls immediately"),
      Str("Focus on quantum-resistant cryptography deployment"),
      Str("Establish basic explainable AI capabilities")>>

BlockBelow60 ==
    <<Str("Optimize existing controls and enhance AI agent capabilities"),
      Str("Implement homomorphic encryption for privacy protection"),
      Str("Activate self-healing policy synthesis engine")>>

BlockBelow80 ==
    <<Str("Focus on continuous improvement and optimization"),
      Str("Enhance automated monitoring and response capabilities"),
      Str("Implement advanced threat detection and analysis")>>

BlockElse ==
    <<Str("Maintain leadership position through innovation"),
      Str("Contribute to industry best practices and standards"),
      Str("Prepare for next-generation regulatory requirements")>>

\* low_scoring_families, were its threshold 80
low_scoring_families_below_80(family_scores) ==
    SelectSeq(family_scores, LAMBDA x : x[2] < Num(80))

\* the list comprehension of generate_recommendations
low_scoring_families(family_scores) ==
    SelectSeq(family_scores, LAMBDA x : x[2] < Num(60))

\* sorted, were it called with reverse=True
sorted_descending(items) ==
    LET rank(i) == Cardinality({j \in 1..Len(items) :
                                  \/ items[j][2] > items[i][2]
                                  \/ items[j][2] = items[i][2] /\ j < i})
    IN  [p \in 1..Len(items) |-> items[CHOOSE i \in 1..Len(items) : rank(i) = p - 1]]

\* sorted(items, key=lambda x: x[1]): ascending by score and stable, so the
\* i-th item goes after the items of a lower score and the earlier items of
\* the same score
sorted(items) ==
    LET rank(i) == Cardinality({j \in 1..Len(items) :
                                  \/ items[j][2] < items[i][2]
                                  \/ items[j][2] = items[i][2] /\ j < i})
    IN  [p \in 1..Len(items) |-> items[CHOOSE i \in 1..Len(items) : rank(i) = p - 1]]

\* the elif chain of generate_recommendations
maturity_block(overall_score) ==
    IF overall_score < Num(40) THEN BlockBelow40
    ELSE IF overall_score < Num(60) THEN BlockBelow60
    ELSE IF overall_score < Num(80) THEN BlockBelow80
    ELSE BlockElse

\* [raised |-> the exception, "none" when the method returns; value |-> the list]
\* self.control_families[family_id] raises KeyError for a family that is not a
\* key of the registry
generate_recommendations(family_scores, overall_score) ==
    LET low == sorted(low_scoring_families(family_scores))
        lines == [i \in 1..Len(low) |->
                    Line(control_families[low[i][1]].name, low[i][1], low[i][2])]
    IN  IF \E i \in 1..Len(low) : low[i][1] \notin DOMAIN control_families
        THEN [raised |-> "KeyError", value |-> <<>>]
        ELSE [raised |-> "none",
              value |-> (IF low # <<>> THEN <<Header>> \o lines ELSE <<>>)
                        \o maturity_block(overall_score)]

\* family_score_item, were the test on the registry left out
family_score_item_unfiltered(family_id, controls) ==
    LET control_scores == [i \in 1..Len(controls) |->
                             <<controls[i].base_score, controls[i].enhancement>>]
    IN  << <<family_id, calculate_family_score(control_scores)>> >>

\* the body of the loop of generate_assessment_report: what one item adds to
\* family_scores
family_score_item(family_id, controls) ==
    LET control_scores == [i \in 1..Len(controls) |->
                             <<controls[i].base_score, controls[i].enhancement>>]
    IN  IF family_id \in DOMAIN control_families
        THEN << <<family_id, calculate_family_score(control_scores)>> >>
        ELSE <<>>

\* the loop of generate_assessment_report: family_scores after n items
RECURSIVE report_family_scores(_, _)
report_family_scores(assessment_data, n) ==
    IF n = 0 THEN <<>>
    ELSE report_family_scores(assessment_data, n - 1)
         \o family_score_item(assessment_data[n][1], assessment_data[n][2])

\* the report of a call that raised
NoReport ==
    [assessment_date |-> "", overall_score |-> 0, maturity_level |-> "",
     family_scores |-> <<>>, recommendations |-> <<>>]

generate_assessment_report(assessment_data, now) ==
    LET family_scores == report_family_scores(assessment_data, Len(assessment_data))
        overall_score == calculate_overall_score(family_scores)
        maturity_level == determine_maturity_level(overall_score)
        recommendations == generate_recommendations(family_scores, overall_score)
    IN  IF recommendations.raised # "none"
        THEN [raised |-> recommendations.raised, value |-> NoReport]
        ELSE [raised |-> "none",
              value |-> [assessment_date |-> now,
                         overall_score |-> Round(overall_score, 2),
                         maturity_level |-> maturity_level,
                         family_scores |-> [i \in 1..Len(family_scores) |->
                                             <<family_scores[i][1],
                                               Round(family_scores[i][2], 2)>>],
                         recommendations |-> recommendations.value]]

-----------------------------------------------------------------------------
(* The callers' inputs *)

\* base scores are submitted from ExtraRange below 0 to ExtraRange above 100
ExtraRange == 10

\* the four tiers of the table and two that are not keys of it
Tiers ==
    {"none", "moderate", "significant", "transformational", "experimental", "MODERATE"}

BaseScores == (0 - ExtraRange)..(100 + ExtraRange)

\* sequences over S of length at most n
RECURSIVE SeqsUpTo(_, _)
SeqsUpTo(S, n) ==
    IF n = 0 THEN {<<>>}
    ELSE LET shorter == SeqsUpTo(S, n - 1)
         IN  shorter \cup {Append(s, x) : s \in {t \in shorter : Len(t) = n - 1}, x \in S}

\* the (base_score, enhancement) tuples given to calculate_family_score
ControlTuples == {0, 45, 60, 70, 80, 100} \X (Tiers \ {"MODERATE"})

ControlLists == SeqsUpTo(ControlTuples, MaxLen)

\* family identifiers in the order a caller may send them; XX and ZZ are not
\* in the registry
ShortKeyOrders ==
    {<<>>, <<"AC">>, <<"XX">>, <<"AC", "XX">>, <<"SC", "AC">>,
     <<"SI", "ZZ", "AT">>, <<"IA", "PE", "CM">>}

LongKeyOrders ==
    {<<"AC", "IA", "SC", "AU", "CM", "AT">>, FamilyOrder, FamilyOrder \o <<"XX">>}

KeyOrders == ShortKeyOrders \cup LongKeyOrders

\* the dict with keys ko: the first k keys map to a, the others to b
TwoValued(ko, k, a, b) == [i \in 1..Len(ko) |-> <<ko[i], IF i <= k THEN a ELSE b>>]

\* family scores given to calculate_overall_score and generate_recommendations
ScoreValues == {Num(0), Num(30), Dec(5995, 100), Num(60), Num(77), Num(100)}

ScoreMaps ==
    UNION {{[i \in 1..Len(ko) |-> <<ko[i], v[i]>>] : v \in [1..Len(ko) -> ScoreValues]}
           : ko \in ShortKeyOrders}
    \cup
    {TwoValued(ko, k, a, b) : ko \in LongKeyOrders, k \in 0..3, a \in ScoreValues,
                              b \in ScoreValues}

\* overall scores given to determine_maturity_level: the quarters
OverallScores == {Dec(k, 4) : k \in (0 - 4 * ExtraRange)..(4 * (100 + ExtraRange))}

\* overall scores given to generate_recommendations
BandScores ==
    {Num(0 - 5), Num(0), Dec(3999, 100), Num(40), Dec(81, 2), Num(41),
     Dec(5999, 100), Num(60), Dec(7999, 100), Num(80), Num(100)}

\* the control records of a request to generate_assessment_report
ControlRecords ==
    {[base_score |-> 70, enhancement |-> "moderate"],
     [base_score |-> 45, enhancement |-> "none"],
     [base_score |-> 100, enhancement |-> "significant"],
     [base_score |-> 50, enhancement |-> "transformational"],
     [base_score |-> 0, enhancement |-> "experimental"],
     [base_score |-> 0 - ExtraRange, enhancement |-> "none"]}

RecordLists == SeqsUpTo(ControlRecords, MaxLen)

FillLists ==
    {<<>>,
     <<[base_score |-> 100, enhancement |-> "none"]>>,
     <<[base_score |-> 45, enhancement |-> "none"]>>}

AssessmentData ==
    {TwoValued(ko, k, a, b) : ko \in KeyOrders, k \in {0, 1, 3}, a \in RecordLists,
                              b \in FillLists}

\* the readings of datetime.datetime.now()
Dates == {"2025-01-01T00:00:00", "2025-01-02T00:00:00"}

-----------------------------------------------------------------------------
(* The engine *)

Idle == [op |-> "idle"]

\* nothing returned: a number, a maturity level, a list of recommendations or a
\* report takes its field
NoValue == [number |-> 0, level |-> "", list |-> <<>>, report |-> NoReport]

Returned(field, value) == [NoValue EXCEPT ![field] = value]

Init ==
    /\ call = Idle
    /\ ret = NoValue
    /\ raised = "none"

CalculateControlScore ==
    /\ call = Idle
    /\ \E base_score \in BaseScores, enhancement_level \in Tiers :
           /\ call' = [op |-> "calculate_control_score", base_score |-> base_score,
                       enhancement_level |-> enhancement_level]
           /\ ret' = Returned("number",
                               calculate_control_score(base_score, enhancement_level))
           /\ raised' = "none"

CalculateFamilyScore ==
    /\ call = Idle
    /\ \E control_scores \in ControlLists :
           /\ call' = [op |-> "calculate_family_score", control_scores |-> control_scores]
           /\ ret' = Returned("number", calculate_family_score(control_scores))
           /\ raised' = "none"

CalculateOverallScore ==
    /\ call = Idle
    /\ \E family_scores \in ScoreMaps :
           /\ call' = [op |-> "calculate_overall_score", family_scores |-> family_scores]
           /\ ret' = Returned("number", calculate_overall_score(family_scores))
           /\ raised' = "none"

DetermineMaturityLevel ==
    /\ call = Idle
    /\ \E overall_score \in OverallScores :
           /\ call' = [op |-> "determine_maturity_level", overall_score |-> overall_score]
           /\ ret' = Returned("level", determine_maturity_level(overall_score))
           /\ raised' = "none"

GenerateRecommendations ==
    /\ call = Idle
    /\ \E family_scores \in ScoreMaps, overall_score \in BandScores :
           LET r == generate_recommendations(family_scores, overall_score)
           IN  /\ call' = [op |-> "generate_recommendations",
                           family_scores |-> family_scores,
                           overall_score |-> overall_score]
               /\ ret' = Returned("list", r.value)
               /\ raised' = r.raised

GenerateAssessmentReport ==
    /\ call = Idle
    /\ \E assessment_data \in AssessmentData, now \in Dates :
           LET r == generate_assessment_report(assessment_data, now)
           IN  /\ call' = [op |-> "generate_assessment_report",
                           assessment_data |-> assessment_data]
               /\ ret' = Returned("report", r.value)
               /\ raised' = r.raised

\* the caller has taken the result (or caught the exception)
Discard ==
    /\ call # Idle
    /\ call' = Idle
    /\ ret' = NoValue
    /\ raised' = "none"

Next ==
    \/ CalculateControlScore
    \/ CalculateFamilyScore
    \/ CalculateOverallScore
    \/ DetermineMaturityLevel
    \/ GenerateRecommendations
    \/ GenerateAssessmentReport
    \/ Discard

Spec == Init /\ [][Next]_vars

-----------------------------------------------------------------------------
(* Properties *)

Registered == DOMAIN control_families

KnownTiers == DOMAIN enhancement_multipliers

Levels == {"basic", "developing", "mature", "advanced"}

\* the keys of a dict
Keys(d) == {d[i][1] : i \in 1..Len(d)}

\* the sum of f[x] over the finite set S
RECURSIVE SumOver(_, _)
SumOver(f, S) ==
    IF S = {} THEN 0
    ELSE LET x == CHOOSE y \in S : TRUE
         IN  f[x] + SumOver(f, S \ {x})

\* the engine has been constructed: it is idle or has answered a call
Constructed ==
    call.op \in {"idle", "calculate_control_score", "calculate_family_score",
                 "calculate_overall_score", "determine_maturity_level",
                 "generate_recommendations", "generate_assessment_report"}

\* C1: the weights of the 17 families of the registry sum to 1.0
C1_WeightsSumToOne ==
    Constructed =>
    /\ Cardinality(Registered) = 17
    /\ SumOver([f \in Registered |-> control_families[f].weight], Registered) = 100

C2_Input == << <<"AC", <<[base_score |-> 70, enhancement |-> "moderate"]>> >> >>

C2_Call == call.op = "generate_assessment_report" /\ call.assessment_data = C2_Input

C2_Scores ==
    /\ raised = "none"
    /\ calculate_control_score(70, "moderate") = Num(77)
    /\ ret.report.family_scores = << <<"AC", Num(77)>> >>
    /\ ret.report.overall_score = Dec(616, 100)
    /\ ret.report.maturity_level = "basic"

\* C2 as stated: for {AC: [(70, moderate)]} the report has control score 77,
\* family score 77, overall score 6.16, maturity "basic", and recommendations
\* that include the AC low-score line and the three strings of the <40 block
C2_Original ==
    C2_Call =>
        /\ C2_Scores
        /\ \E i \in 1..Len(ret.report.recommendations) :
               ret.report.recommendations[i] = Line("Access Control", "AC", Num(77))
        /\ \A j \in 1..3 : \E i \in 1..Len(ret.report.recommendations) :
               ret.report.recommendations[i] = BlockBelow40[j]

\* C2 amended: the same scores, and the recommendations are exactly the three
\* strings of the <40 block: AC scores 77, which is not below 60, so the list
\* has no header and no AC line
C2_EndToEnd ==
    C2_Call =>
        /\ C2_Scores
        /\ ret.report.recommendations = BlockBelow40

C2_Witness == C2_Call /\ raised = "none" /\ Len(ret.report.recommendations) = 3

\* every control of the request has a base score in [0, 100]
BaseScoresInRange(assessment_data) ==
    \A i \in 1..Len(assessment_data) : \A j \in 1..Len(assessment_data[i][2]) :
        assessment_data[i][2][j].base_score \in 0..100

\* C3: determine_maturity_level gives one of the four levels for every score
\* in [0, 100], fractions included, "unknown" only outside [0, 100]; and no
\* report built from base scores in [0, 100] has maturity_level "unknown"
C3_MaturityPartition ==
    /\ call.op = "determine_maturity_level" =>
          /\ (0 <= call.overall_score /\ call.overall_score <= Num(100)) => ret.level \in Levels
          /\ ret.level = "unknown" => (call.overall_score < 0 \/ call.overall_score > Num(100))
    /\ (/\ call.op = "generate_assessment_report"
        /\ raised = "none"
        /\ BaseScoresInRange(call.assessment_data)) => ret.report.maturity_level # "unknown"

\* C4: for a base score in [0, 100] and a tier of the table the control score
\* is min(base_score * multiplier, 100), so never above 100
C4_ControlScoreCapped ==
    (/\ call.op = "calculate_control_score"
     /\ call.base_score \in 0..100
     /\ call.enhancement_level \in KnownTiers) =>
        LET product == ExactDiv(call.base_score * Scale
                                * enhancement_multipliers[call.enhancement_level], 100)
        IN  /\ ret.number <= Num(100)
            /\ ret.number <= product
            /\ ret.number = product \/ ret.number = Num(100)

C4_Witness ==
    /\ call.op = "calculate_control_score"
    /\ call.base_score = 80
    /\ call.enhancement_level = "transformational"
    /\ ret.number = Num(100)

\* C5: for x in [0, 100] a tier that is not a key of the table scores as
\* "none" does, that is x itself, and raises nothing
C5_UnknownTierIsNone ==
    (/\ call.op = "calculate_control_score"
     /\ call.base_score \in 0..100
     /\ call.enhancement_level \notin KnownTiers) =>
        /\ raised = "none"
        /\ ret.number = calculate_control_score(call.base_score, "none")
        /\ ret.number = Num(call.base_score)

C5_Witness ==
    /\ call.op = "calculate_control_score"
    /\ call.base_score = 70
    /\ call.enhancement_level = "MODERATE"
    /\ ret.number = Num(70)

\* the score a dict gives a key it has
ScoreOf(d, key) == d[CHOOSE i \in 1..Len(d) : d[i][1] = key][2]

\* the dict with every score multiplied by k
Scaled(d, k) == [i \in 1..Len(d) |-> <<d[i][1], k * d[i][2]>>]

\* the dict with the score of every unregistered key replaced by v
Overwritten(d, v) ==
    [i \in 1..Len(d) |-> <<d[i][1], IF d[i][1] \in Registered THEN d[i][2] ELSE v>>]

BandBlock(overall_score) ==
    CASE overall_score < Num(40) -> BlockBelow40
      [] Num(40) <= overall_score /\ overall_score < Num(60) -> BlockBelow60
      [] Num(60) <= overall_score /\ overall_score < Num(80) -> BlockBelow80
      [] Num(80) <= overall_score -> BlockElse

\* C8: for a map over registered families the list is: if some family scores
\* below 60, the header and then one line for each family below 60 and for no
\* other, in ascending order of score; then the three strings of the band of
\* the overall score; nothing else
C8_RecommendationsOrder ==
    (call.op = "generate_recommendations" /\ Keys(call.family_scores) \subseteq Registered) =>
        LET fs == call.family_scores
            low == {f \in Keys(fs) : ScoreOf(fs, f) < Num(60)}
            n == Cardinality(low)
            first == IF n = 0 THEN 0 ELSE 1
        IN  /\ raised = "none"
            /\ Len(ret.list) = first + n + 3
            /\ n > 0 => ret.list[1] = Header
            /\ {ret.list[first + i].family_id : i \in 1..n} = low
            /\ \A i \in 1..n :
                   LET f == ret.list[first + i].family_id
                   IN  f \in low =>
                           ret.list[first + i]
                               = Line(control_families[f].name, f, ScoreOf(fs, f))
            /\ \A i \in 1..n, j \in 1..n :
                   (i < j /\ {ret.list[first + i].family_id, ret.list[first + j].family_id} \subseteq low)
                       => ScoreOf(fs, ret.list[first + i].family_id)
                              <= ScoreOf(fs, ret.list[first + j].family_id)
            /\ SubSeq(ret.list, first + n + 1, first + n + 3) = BandBlock(call.overall_score)

C8_Witness ==
    /\ call.op = "generate_recommendations"
    /\ call.family_scores
           = << <<"IA", Dec(5995, 100)>>, <<"PE", Num(0)>>, <<"CM", Num(30)>> >>
    /\ call.overall_score = Num(60)
    /\ raised = "none"
    /\ Len(ret.list) = 7
    /\ ret.list[2].family_id = "PE"

\* the keys of the request that are in the registry, in the request's order
RegisteredKeys(assessment_data) ==
    LET kept == SelectSeq(assessment_data, LAMBDA x : x[1] \in Registered)
    IN  [i \in 1..Len(kept) |-> kept[i][1]]

\* C9: generate_assessment_report raises nothing, whatever the mix of
\* registered and unregistered families, known and unknown tiers and empty
\* control lists; family_scores holds the registered families of the request
\* and no other; maturity_level is one of the four levels or "unknown"
C9_ReportNeverRaises ==
    call.op = "generate_assessment_report" =>
        /\ raised = "none"
        /\ [i \in 1..Len(ret.report.family_scores) |-> ret.report.family_scores[i][1]]
               = RegisteredKeys(call.assessment_data)
        /\ \A i \in 1..Len(ret.report.recommendations) :
               ret.report.recommendations[i].family_id \in Registered \cup {""}
        /\ ret.report.maturity_level \in Levels \cup {"unknown"}

C9_Witness ==
    /\ call.op = "generate_assessment_report"
    /\ raised = "none"
    /\ \E i \in 1..Len(call.assessment_data) :
           /\ call.assessment_data[i][1] \notin Registered
           /\ call.assessment_data[i][2] = <<>>
    /\ \E i \in 1..Len(call.assessment_data) :
           /\ call.assessment_data[i][1] \in Registered
           /\ \E j \in 1..Len(call.assessment_data[i][2]) :
                  call.assessment_data[i][2][j].enhancement \notin KnownTiers
    /\ Len(ret.report.family_scores) = 1

\* the last three entries of a report's recommendations
NarrativeBlock == SubSeq(ret.report.recommendations, Len(ret.report.recommendations) - 2,
                         Len(ret.report.recommendations))

\* C10: in every report the narrative block agrees with maturity_level: the
\* <40 block exactly with "basic", the [40,60) block exactly with
\* "developing", the [60,80) block exactly with "mature", the >=80 block
\* exactly with "advanced".  Stated on the reports the four levels classify,
\* built from base scores in [0, 100]: the claim's own cases, away from the
\* scores that determine_maturity_level leaves unclassified
C10_BlockAgreesWithMaturity ==
    (/\ call.op = "generate_assessment_report"
     /\ raised = "none"
     /\ BaseScoresInRange(call.assessment_data)
     /\ ret.report.maturity_level \in Levels) =>
        /\ NarrativeBlock = BlockBelow40 <=> ret.report.maturity_level = "basic"
        /\ NarrativeBlock = BlockBelow60 <=> ret.report.maturity_level = "developing"
        /\ NarrativeBlock = BlockBelow80 <=> ret.report.maturity_level = "mature"
        /\ NarrativeBlock = BlockElse <=> ret.report.maturity_level = "advanced"

=============================================================================
